---- MODULE Spec2Model ----
(***************************************************************************)
(* irgen: generator of variant record types and dispatch functions from a  *)
(* composite/consumer pair of Go interface declarations.                   *)
(*                                                                         *)
(* The repository holds two entry points, both modelled:                   *)
(*   prog = "main" : src/main.go, the single-file program                  *)
(*   prog = "cmd"  : src/unnamed/part_003 (the command) driving the        *)
(*                   library src/unnamed/part_002 (Config.Generate)        *)
(* One run of a program is one behaviour: Init draws the loaded package,   *)
(* the command line and the destination's prior state; the actions are the *)
(* stages of the run in program order.                                     *)
(*                                                                         *)
(* Identifiers are sequences of one-character strings, so strings.ToLower  *)
(* and ast.IsExported are computed character by character.                 *)
(***************************************************************************)
EXTENDS Integers, Sequences, FiniteSets, TLC

(* ---------------------------- bounds ---------------------------------- *)
MaxDecls == 3
MaxCompElems == 2
MaxMethods == 2

(* ------------------------- characters --------------------------------- *)
UpperChars == <<"A","B","C","D","E","F","G","H","I","J","K","L","M",
                "N","O","P","Q","R","S","T","U","V","W","X","Y","Z">>
LowerChars == <<"a","b","c","d","e","f","g","h","i","j","k","l","m",
                "n","o","p","q","r","s","t","u","v","w","x","y","z">>

IsUpper(c) == \E i \in DOMAIN UpperChars : UpperChars[i] = c

ToLowerChar(c) ==
  IF IsUpper(c)
    THEN LowerChars[CHOOSE i \in DOMAIN UpperChars : UpperChars[i] = c]
    ELSE c

ToLowerKeep(s) == s

ToLower(s) == [i \in DOMAIN s |-> ToLowerChar(s[i])]

IsExported(name) == Len(name) > 0 /\ IsUpper(name[1])

(* ------------------------- identifiers -------------------------------- *)
idType         == <<"T","y","p","e">>
idTypeConsumer == <<"T","y","p","e","C","o","n","s","u","m","e","r">>
idExpr         == <<"e","x","p","r">>
idExprConsumer == <<"e","x","p","r","C","o","n","s","u","m","e","r">>
idOther        == <<"O","t","h","e","r">>
idFeedTo       == <<"F","e","e","d","T","o">>
idAccept       == <<"A","c","c","e","p","t">>
idCons         == <<"c","o","n","s">>
idAlt          == <<"a","l","t">>
idConsumer     == <<"c","o","n","s","u","m","e","r">>
idNamed        == <<"N","a","m","e","d">>
idFunction     == <<"F","u","n","c","t","i","o","n">>
idNone         == <<"N","o","n","e">>
idName         == <<"N","a","m","e">>
idArgs         == <<"A","r","g","s">>
idArg          == <<"A","r","g">>
idOutput       == <<"O","u","t","p","u","t">>
idLowArg       == <<"a","r","g">>
idMixed        == <<"x","Y">>
idBlank        == <<"_">>
idString       == <<"s","t","r","i","n","g">>
idInt          == <<"i","n","t">>
idTypes        == <<"t","y","p","e","s">>

(* --------------------------- AST values ------------------------------- *)
\* an expression used as a type: an *ast.Ident, or any other expression
TIdent(n) == [Ident |-> TRUE, Name |-> n]
TExpr(s)  == [Ident |-> FALSE, Name |-> <<s>>]

\* *ast.Field of a parameter or result list
Group(names, typ) == [Names |-> names, Type |-> typ]

\* *ast.Field of an interface's method list: a method, or an embedded type
Method(name, params, results) ==
  [Names |-> <<name>>, Func |-> TRUE, Params |-> params, Results |-> results]
Embedded(name) ==
  [Names |-> <<>>, Func |-> FALSE, Params |-> <<>>, Results |-> <<>>]

\* *ast.TypeSpec
Interface(name, methods) == [Name |-> name, Iface |-> TRUE, Methods |-> methods]
Struct(name) == [Name |-> name, Iface |-> FALSE, Methods |-> <<>>]

RECURSIVE SumFields(_, _)
SumFields(list, i) ==
  IF i > Len(list) THEN 0
  ELSE (IF Len(list[i].Names) = 0 THEN 1 ELSE Len(list[i].Names))
       + SumFields(list, i + 1)

NumFieldsGroups(list) == Len(list)

\* (*ast.FieldList).NumFields: names counted, an anonymous field counts one
NumFields(list) == SumFields(list, 1)

(* ---------------------------- errors ---------------------------------- *)
Err(kind, role, name, n) == [kind |-> kind, role |-> role, name |-> name, n |-> n]
NoErr == Err("none", "", <<>>, 0)
\* a failed type assertion: a run-time panic, not an error value
Panic == Err("panic", "", <<>>, 0)

(* ----------------------- declaration lookup --------------------------- *)
RECURSIVE typeSpecsFrom(_, _, _)
typeSpecsFrom(p, name, i) ==
  IF i > Len(p) THEN <<>>
  ELSE (IF p[i].Name = name THEN <<i>> ELSE <<>>) \o typeSpecsFrom(p, name, i + 1)

\* the type declarations named `name`, as positions in the package, in order
typeSpecsNamed(p, name) == typeSpecsFrom(p, name, 1)

typeSpecNamedFirst(p, name) ==
  LET specs == typeSpecsNamed(p, name) IN
  IF Len(specs) = 0
    THEN [spec |-> 0, err |-> Err("NotFound", "lookup", name, 0)]
    ELSE [spec |-> specs[1], err |-> NoErr]

typeSpecNamed(p, name) ==
  LET specs == typeSpecsNamed(p, name) IN
  IF Len(specs) = 0
    THEN [spec |-> 0, err |-> Err("NotFound", "lookup", name, 0)]
  ELSE IF Len(specs) > 1
    THEN [spec |-> 0, err |-> Err("Ambiguous", "lookup", name, Len(specs))]
  ELSE [spec |-> specs[1], err |-> NoErr]

\* errors.Wrapf(err, "can't retrieve <role> type %s spec", name)
Wrap(e, role) == [e EXCEPT !.role = role]

(* ----------------------- shape validation ----------------------------- *)
checkDestructuringMethod(method, consumerName) ==
  IF ~method.Func THEN Panic      \* method.Type.(*ast.FuncType) on an embedded type
  ELSE IF NumFields(method.Params) # 1
    THEN Err("Arity", "composite", method.Names[1], NumFields(method.Params))
  ELSE LET argGroup == method.Params[1] IN
    IF ~argGroup.Type.Ident \/ argGroup.Type.Name # consumerName
      THEN Err("ParamType", "composite", method.Names[1], 0)
    ELSE IF NumFields(method.Results) > 0
      THEN Err("ResultCount", "composite", method.Names[1], NumFields(method.Results))
    ELSE NoErr

RECURSIVE checkArgGroups(_, _, _)
checkArgGroups(list, i, mname) ==
  IF i > Len(list) THEN NoErr
  ELSE IF Len(list[i].Names) = 0
    THEN Err("UnnamedParam", "consumer", mname, 0)
  ELSE IF \E j \in DOMAIN list[i].Names : ~IsExported(list[i].Names[j])
    THEN Err("NonExportableName", "consumer", mname, 0)
  ELSE checkArgGroups(list, i + 1, mname)

checkConsumerMethodResultsFirst(method) ==
  IF ~method.Func THEN Panic
  ELSE IF NumFields(method.Results) > 0
    THEN Err("ResultCount", "consumer", method.Names[1], NumFields(method.Results))
  ELSE checkArgGroups(method.Params, 1, method.Names[1])

checkConsumerMethod(method) ==
  IF ~method.Func THEN Panic      \* method.Type.(*ast.FuncType) on an embedded type
  ELSE LET e == checkArgGroups(method.Params, 1, method.Names[1]) IN
    IF e # NoErr THEN e
    ELSE IF NumFields(method.Results) > 0
      THEN Err("ResultCount", "consumer", method.Names[1], NumFields(method.Results))
    ELSE NoErr

(* ----------------------- variant synthesis ---------------------------- *)
\* one selector expression recv.name per name of a group
RECURSIVE groupArgs(_, _, _)
groupArgs(names, j, recv) ==
  IF j > Len(names) THEN <<>>
  ELSE <<[X |-> recv, Sel |-> names[j]]>> \o groupArgs(names, j + 1, recv)

RECURSIVE argsFrom(_, _, _)
argsFrom(fields, i, recv) ==
  IF i > Len(fields) THEN <<>>
  ELSE groupArgs(fields[i].Names, 1, recv) \o argsFrom(fields, i + 1, recv)

\* the loop of generateVariantType building the call's arguments
callArgs(fields, recv) == argsFrom(fields, 1, recv)

\* funtyp.Params.List[0].Names = []*ast.Ident{argName}: the composite's own
\* method node is written, not a copy of it
renameParam(compositeMethod) ==
  [compositeMethod EXCEPT !.Params[1].Names = <<idConsumer>>]

recvNameOf(compositeName) == ToLower(compositeName)

\* p: the package's declarations; ci, ki: positions of the composite and the
\* consumer declaration; mi: position of the consumer method.  The result's
\* pkg is the package after the write to the composite's method node; the
\* consumer method is read through it, since `fields` holds the method's own
\* *ast.Field nodes and is read (lines 266-275) after that write (line 257).
generateVariantType(p, ci, ki, mi) ==
  LET p2       == [p EXCEPT ![ci].Methods[1] = renameParam(p[ci].Methods[1])]
      compositeMethod == p2[ci].Methods[1]
      consumerMethod  == p2[ki].Methods[mi]
      typName  == consumerMethod.Names[1]
      funName  == compositeMethod.Names[1]
      fields   == consumerMethod.Params
      typ      == [k |-> "type", Name |-> typName, Fields |-> fields]
      argName  == idConsumer
      recvName == recvNameOf(p[ci].Name)
      call     == [X |-> argName, Sel |-> consumerMethod.Names[1],
                   Args |-> callArgs(fields, recvName)]
      body     == [Return |-> NumFields(compositeMethod.Results) > 0, Call |-> call]
      fun      == [k |-> "func",
                   Recv |-> [Name |-> recvName, Star |-> typName],
                   Name |-> funName,
                   Params |-> compositeMethod.Params,
                   Results |-> compositeMethod.Results,
                   Body |-> body]
  IN [typ |-> typ, fun |-> fun, pkg |-> p2]

(* ------------------------ assembly, rendering ------------------------- *)
assembleDeclsInterleaved(ts, fs) ==
  [i \in 1..(Len(ts) + Len(fs)) |->
     IF i % 2 = 1 THEN ts[(i + 1) \div 2] ELSE fs[i \div 2]]

\* generateAST: one GenDecl per record type, then the functions
assembleDecls(ts, fs) == ts \o fs

MarkerLine == [k |-> "comment", text |-> "// Code generated by irgen; DO NOT EDIT."]
PackageLine(name) == [k |-> "package", Name |-> name]

\* format.Node on the *ast.File: the package clause, then the declarations
formatNode(f) == <<PackageLine(f.Name)>> \o f.Decls

(* ------------------------- parsing stage ------------------------------ *)
KindErr(role, name) == Err("Kind", role, name, 0)
LoadErr(what) == Err("Load", what, <<>>, 0)

\* part_002 generator.parseTypes: lookup and kind check of the composite,
\* then of the consumer
parseTypes(p, ld, c) ==
  IF ld = "parseError"
    THEN [composite |-> 0, consumer |-> 0, lookups |-> <<>>, err |-> LoadErr("parse")]
  ELSE IF ld = "noPackage"
    THEN [composite |-> 0, consumer |-> 0, lookups |-> <<>>, err |-> LoadErr("package")]
  ELSE LET comp == typeSpecNamed(p, c.Composite) IN
    IF comp.err # NoErr
      THEN [composite |-> 0, consumer |-> 0, lookups |-> <<c.Composite>>,
            err |-> Wrap(comp.err, "composite")]
    ELSE IF ~p[comp.spec].Iface
      THEN [composite |-> comp.spec, consumer |-> 0, lookups |-> <<c.Composite>>,
            err |-> KindErr("composite", c.Composite)]
    ELSE LET cons == typeSpecNamed(p, c.Consumer) IN
      IF cons.err # NoErr
        THEN [composite |-> comp.spec, consumer |-> 0,
              lookups |-> <<c.Composite, c.Consumer>>,
              err |-> Wrap(cons.err, "consumer")]
      ELSE IF ~p[cons.spec].Iface
        THEN [composite |-> comp.spec, consumer |-> cons.spec,
              lookups |-> <<c.Composite, c.Consumer>>,
              err |-> KindErr("consumer", c.Consumer)]
      ELSE [composite |-> comp.spec, consumer |-> cons.spec,
            lookups |-> <<c.Composite, c.Consumer>>, err |-> NoErr]

\* main.go ParseTypes, then main's two kind checks (lines 52-67): both
\* lookups come before either kind check
ParseTypes(p, ld, c) ==
  IF ld = "parseError"
    THEN [composite |-> 0, consumer |-> 0, lookups |-> <<>>, err |-> LoadErr("parse")]
  ELSE IF ld = "noPackage"
    THEN [composite |-> 0, consumer |-> 0, lookups |-> <<>>, err |-> LoadErr("package")]
  ELSE LET comp == typeSpecNamed(p, c.Composite) IN
    IF comp.err # NoErr
      THEN [composite |-> 0, consumer |-> 0, lookups |-> <<c.Composite>>,
            err |-> Wrap(comp.err, "composite")]
    ELSE LET cons == typeSpecNamed(p, c.Consumer) IN
      IF cons.err # NoErr
        THEN [composite |-> 0, consumer |-> 0,
              lookups |-> <<c.Composite, c.Consumer>>,
              err |-> Wrap(cons.err, "consumer")]
      ELSE IF ~p[comp.spec].Iface
        THEN [composite |-> comp.spec, consumer |-> cons.spec,
              lookups |-> <<c.Composite, c.Consumer>>,
              err |-> KindErr("composite", c.Composite)]
      ELSE IF ~p[cons.spec].Iface
        THEN [composite |-> comp.spec, consumer |-> cons.spec,
              lookups |-> <<c.Composite, c.Consumer>>,
              err |-> KindErr("consumer", c.Consumer)]
      ELSE [composite |-> comp.spec, consumer |-> cons.spec,
            lookups |-> <<c.Composite, c.Consumer>>, err |-> NoErr]

\* fmt.Sprintf("%s_impl.go", strings.ToLower(<composite name>))
defaultFileName(c) == ToLower(c.Composite) \o <<"_impl.go">>

(* ------------------------------ inputs -------------------------------- *)
SeqsUpTo(S, n) == UNION {[1..k -> S] : k \in 0..n}

OptEmpty  == <<>>
OptStdout == <<"-">>
OptRef    == <<"ref.go">>

NamePairs == {[Composite |-> idType, Consumer |-> idTypeConsumer, PackageName |-> idTypes],
              [Composite |-> idExpr, Consumer |-> idExprConsumer, PackageName |-> idTypes]}
\* irgen Type Type: one declaration named as both composite and consumer
SelfPair == [Composite |-> idType, Consumer |-> idType, PackageName |-> idTypes]

\* FeedTo(cons TypeConsumer)
RefMethod(kn) == Method(idFeedTo, <<Group(<<idCons>>, TIdent(kn))>>, <<>>)
\* Accept(TypeConsumer)
UnnamedMethod(kn) == Method(idAccept, <<Group(<<>>, TIdent(kn))>>, <<>>)
IntResult == <<Group(<<>>, TIdent(idInt))>>

\* the elements a composite's interface body is drawn from
CompElemPool(kn) ==
  { RefMethod(kn),
    UnnamedMethod(kn),
    Method(idFeedTo, <<Group(<<idArg>>, TIdent(kn))>>, <<>>),                 \* FeedTo(Arg K)
    Method(idFeedTo, <<>>, <<>>),                                             \* FeedTo()
    Method(idFeedTo, <<Group(<<idCons, idAlt>>, TIdent(kn))>>, <<>>),         \* FeedTo(cons, alt K)
    Method(idFeedTo, <<Group(<<idCons>>, TIdent(kn)),
                       Group(<<idAlt>>, TIdent(idInt))>>, <<>>),              \* FeedTo(cons K, alt int)
    Method(idFeedTo, <<Group(<<idCons>>, TIdent(idOther))>>, <<>>),           \* FeedTo(cons Other)
    Method(idFeedTo, <<Group(<<idCons>>, TExpr("*K"))>>, <<>>),               \* FeedTo(cons *K)
    Method(idFeedTo, <<Group(<<idCons>>, TIdent(kn))>>, IntResult),           \* FeedTo(cons K) int
    Method(idFeedTo, <<Group(<<idCons>>, TIdent(idOther))>>, IntResult),      \* FeedTo(cons Other) int
    Method(idFeedTo, <<Group(<<idCons, idAlt>>, TIdent(idOther))>>, IntResult), \* FeedTo(cons, alt Other) int
    Embedded(idOther) }

\* the elements a consumer's interface body is drawn from
ConsElemPool(cn) ==
  { Method(idNamed, <<Group(<<idName>>, TIdent(idString)),
                      Group(<<idArgs>>, TExpr("[]Type"))>>, <<>>),            \* Named(Name string, Args []Type)
    Method(idFunction, <<Group(<<idArg, idOutput>>, TIdent(cn))>>, <<>>),     \* Function(Arg, Output C)
    Method(idNone, <<>>, <<>>),                                               \* None()
    Method(idNamed, <<Group(<<>>, TIdent(idString))>>, <<>>),                 \* Named(string)
    Method(idNamed, <<Group(<<>>, TIdent(idString))>>, IntResult),            \* Named(string) int
    Method(idFunction, <<Group(<<idArg, idLowArg>>, TIdent(cn))>>, <<>>),     \* Function(Arg, arg C)
    Method(idFunction, <<Group(<<idMixed>>, TIdent(cn))>>, IntResult),        \* Function(xY C) int
    Method(idNone, <<Group(<<idBlank>>, TIdent(idInt))>>, <<>>),              \* None(_ int)
    Method(idNone, <<>>, IntResult),                                          \* None() int
    Embedded(idOther) }

RefComposite(c) == Interface(c.Composite, <<RefMethod(c.Consumer)>>)
RefConsumer(c) ==
  Interface(c.Consumer,
    << Method(idNamed, <<Group(<<idName>>, TIdent(idString)),
                         Group(<<idArgs>>, TExpr("[]Type"))>>, <<>>),
       Method(idFunction, <<Group(<<idArg, idOutput>>, TIdent(c.Composite))>>, <<>>) >>)
RefPackage(c) == <<RefComposite(c), RefConsumer(c)>>

\* the declarations a package is laid out from
DeclPool(c) ==
  { RefComposite(c), RefConsumer(c), Struct(c.Composite), Struct(c.Consumer),
    Struct(idOther) }

In(c, p, o) ==
  [cfg |-> c, pkg |-> p, loaded |-> "ok", out |-> o, verbose |-> FALSE, exists |-> TRUE]

\* the package's layout varies
LayoutInputs ==
  UNION { { In(c, p, o) : p \in SeqsUpTo(DeclPool(c), MaxDecls), o \in {OptStdout, OptRef} } :
          c \in NamePairs }

\* the composite's body varies
CompositeInputs ==
  UNION { { In(c, <<Interface(c.Composite, b), RefConsumer(c)>>, o) :
              b \in SeqsUpTo(CompElemPool(c.Consumer), MaxCompElems),
              o \in {OptStdout, OptRef} } :
          c \in NamePairs }

\* the consumer's body varies
ConsumerInputs ==
  UNION { { In(c, <<Interface(c.Composite, <<m>>), Interface(c.Consumer, b)>>, o) :
              m \in {RefMethod(c.Consumer), UnnamedMethod(c.Consumer)},
              b \in SeqsUpTo(ConsElemPool(c.Composite), MaxMethods),
              o \in {OptStdout, OptRef} } :
          c \in NamePairs }

\* one declaration is both composite and consumer
SelfInputs ==
  { In(SelfPair, <<Interface(idType, b)>>, o) :
      b \in SeqsUpTo(CompElemPool(idType), MaxCompElems), o \in {OptStdout, OptRef} }

\* the command line, the loader's outcome and the destination's prior state vary
EnvInputs ==
  { [cfg |-> c, pkg |-> RefPackage(c), loaded |-> ld, out |-> o, verbose |-> v, exists |-> x] :
      c \in NamePairs, ld \in {"ok", "parseError", "noPackage"},
      o \in {OptEmpty, OptStdout, OptRef}, v \in BOOLEAN, x \in BOOLEAN }

Inputs == LayoutInputs \cup CompositeInputs \cup ConsumerInputs \cup SelfInputs \cup EnvInputs

OldContent == <<[k |-> "old"]>>

(* ------------------------------ state --------------------------------- *)
VARIABLES
  prog,            \* "main" (main.go) or "cmd" (part_003 with part_002)
  cfg,             \* the names given on the command line, and the package name
  loaded,          \* outcome of parser.ParseDir and the package lookup
  source,          \* the package's declarations as loaded
  pkg,             \* the package's declarations in memory (the AST)
  outputFileName,  \* -out
  verbose,         \* -v
  pc,              \* stage of the run
  composite,       \* position in pkg of the composite declaration, 0: nil
  consumer,        \* position in pkg of the consumer declaration, 0: nil
  lookups,         \* the names typeSpecNamed was called with, in call order
  idx,             \* generateVariantTypes: position of the next consumer method
  typs, funs,      \* generateVariantTypes: the two lists, then its results
  file,            \* gen.file / fileAST: <<>> when nil
  buf,             \* the bytes.Buffer Generate writes to (cmd)
  out,             \* the writer chosen by main: "none", "stdout", "file", "file+stdout"
  disk,            \* the destination file
  createLog,       \* one entry per successful os.Create: the run's progress then
  stdout,          \* what reached standard output
  err,             \* the error the run ended with
  exit             \* exit code, -1 while running

vars == <<prog, cfg, loaded, source, pkg, outputFileName, verbose, pc, composite,
          consumer, lookups, idx, typs, funs, file, buf, out, disk, createLog,
          stdout, err, exit>>

Init ==
  \E in \in Inputs, pr \in {"main", "cmd"} :
    /\ prog = pr
    /\ cfg = in.cfg
    /\ loaded = in.loaded
    /\ source = in.pkg
    /\ pkg = in.pkg
    /\ outputFileName = in.out
    /\ verbose = in.verbose
    /\ pc = "start"
    /\ composite = 0
    /\ consumer = 0
    /\ lookups = <<>>
    /\ idx = 0
    /\ typs = <<>>
    /\ funs = <<>>
    /\ file = <<>>
    /\ buf = <<>>
    /\ out = "none"
    /\ disk = [exists |-> in.exists,
               content |-> IF in.exists THEN OldContent ELSE <<>>,
               open |-> FALSE]
    /\ createLog = <<>>
    /\ stdout = <<>>
    /\ err = NoErr
    /\ exit = -1

(* ------------------------------ actions ------------------------------- *)
IOErr(what) == Err("IO", what, <<>>, 0)

\* log.Fatal, or a run-time panic: the process ends at once
Halt(e) ==
  /\ pc' = "done"
  /\ err' = e
  /\ exit' = IF e = Panic THEN 2 ELSE 1

\* main.go lines 44-67 / part_002 lines 44-50, 60-94: the command line is
\* taken, the two declarations are looked up and must be interfaces
parseStage ==
  /\ pc = "start"
  /\ LET r == IF prog = "cmd" THEN parseTypes(pkg, loaded, cfg)
                              ELSE ParseTypes(pkg, loaded, cfg) IN
       /\ composite' = r.composite
       /\ consumer' = r.consumer
       /\ lookups' = r.lookups
       /\ IF r.err = NoErr
            THEN pc' = "parsed" /\ UNCHANGED <<err, exit>>
            ELSE Halt(r.err)
  /\ outputFileName' = IF prog = "main" /\ outputFileName = OptEmpty
                         THEN defaultFileName(cfg) ELSE outputFileName
  /\ UNCHANGED <<prog, cfg, loaded, source, pkg, verbose, idx, typs, funs, file,
                 buf, out, disk, createLog, stdout>>

\* generateVariantTypes up to its loop: the composite's shape
checkComposite ==
  /\ pc = "parsed"
  /\ LET methods == pkg[composite].Methods IN
       IF NumFields(methods) # 1
         THEN Halt(Err("MethodCount", "composite", cfg.Composite, NumFields(methods)))
              /\ UNCHANGED idx
         ELSE LET e == checkDestructuringMethod(methods[1], cfg.Consumer) IN
           IF e # NoErr
             THEN Halt(e) /\ UNCHANGED idx
             ELSE pc' = "loop" /\ idx' = 1 /\ UNCHANGED <<err, exit>>
  /\ UNCHANGED <<prog, cfg, loaded, source, pkg, outputFileName, verbose, composite,
                 consumer, lookups, typs, funs, file, buf, out, disk, createLog, stdout>>

abortResultPartial(ts, fs) == [typs |-> ts, funs |-> fs]

\* return nil, nil, err
abortResult(ts, fs) == [typs |-> <<>>, funs |-> <<>>]

\* one iteration of generateVariantTypes' loop over the consumer's methods
variantStep ==
  /\ pc = "loop"
  /\ idx <= Len(pkg[consumer].Methods)
  /\ LET e == checkConsumerMethod(pkg[consumer].Methods[idx]) IN
       IF e # NoErr
         THEN /\ typs' = abortResult(typs, funs).typs
              /\ funs' = abortResult(typs, funs).funs
              /\ Halt(e)
              /\ UNCHANGED <<pkg, idx>>
         ELSE LET g == generateVariantType(pkg, composite, consumer, idx) IN
              /\ typs' = Append(typs, g.typ)
              /\ funs' = Append(funs, g.fun)
              /\ pkg' = g.pkg
              /\ idx' = idx + 1
              /\ UNCHANGED <<pc, err, exit>>
  /\ UNCHANGED <<prog, cfg, loaded, source, outputFileName, verbose, composite,
                 consumer, lookups, file, buf, out, disk, createLog, stdout>>

\* the loop is over: generateVariantTypes returns and generateAST / File
\* builds the output unit
generateAST ==
  /\ pc = "loop"
  /\ idx > Len(pkg[consumer].Methods)
  /\ file' = <<[Name |-> cfg.PackageName, Decls |-> assembleDecls(typs, funs)]>>
  /\ pc' = "assembled"
  /\ UNCHANGED <<prog, cfg, loaded, source, pkg, outputFileName, verbose, composite,
                 consumer, lookups, idx, typs, funs, buf, out, disk, createLog,
                 stdout, err, exit>>

\* what generator.dumpAST writes to gen.Out
dumpASTOutput(f) == <<MarkerLine>> \o formatNode(f)

\* part_002 dumpAST, run by Generate into the command's buffer
dumpAST ==
  /\ prog = "cmd"
  /\ pc = "assembled"
  /\ buf' = dumpASTOutput(file[1])
  /\ pc' = "dumped"
  /\ UNCHANGED <<prog, cfg, loaded, source, pkg, outputFileName, verbose, composite,
                 consumer, lookups, idx, typs, funs, file, out, disk, createLog,
                 stdout, err, exit>>

createReadyOnceAssembled(pr, p) == p = "assembled"

\* where main reaches its choice of writer: main.go after File returned
\* (line 69), part_003 after Generate returned (line 50)
createReady(pr, p) ==
  \/ pr = "main" /\ p = "assembled"
  \/ pr = "cmd" /\ p = "dumped"

\* main.go lines 74-90 / part_003 lines 55-76: the writer is chosen and the
\* destination file created
createOutput ==
  /\ createReady(prog, pc)
  /\ outputFileName' = IF outputFileName = OptEmpty
                         THEN defaultFileName(cfg) ELSE outputFileName
  /\ IF outputFileName = OptStdout
       THEN /\ out' = "stdout"
            /\ pc' = "opened"
            /\ UNCHANGED <<disk, createLog, err, exit>>
       ELSE \/ /\ disk' = [exists |-> TRUE, content |-> <<>>, open |-> TRUE]
               /\ createLog' = Append(createLog,
                                 [validated |-> pc \in {"loop", "assembled", "dumped"},
                                  assembled |-> file # <<>>,
                                  rendered |-> buf # <<>>])
               /\ out' = IF verbose THEN "file+stdout" ELSE "file"
               /\ pc' = "opened"
               /\ UNCHANGED <<err, exit>>
            \/ /\ Halt(IOErr("create"))
               /\ UNCHANGED <<out, disk, createLog>>
  /\ UNCHANGED <<prog, cfg, loaded, source, pkg, verbose, composite, consumer,
                 lookups, idx, typs, funs, file, buf, stdout>>

\* what the last statement of main writes: main.go renders the unit
\* (format.Node, line 92), part_003 copies the buffer (io.Copy, line 78)
emitData(pr, f, b) == IF pr = "main" THEN formatNode(f[1]) ELSE b

Prefix(data, n) == SubSeq(data, 1, n)

\* the write to the chosen writer; on success main returns and the deferred
\* file.Close runs, on failure log.Fatal ends the process without it
emit ==
  /\ pc = "opened"
  /\ LET data == emitData(prog, file, buf) IN
       \/ /\ out = "stdout"
          /\ \E n \in 0..Len(data) :
               /\ stdout' = Prefix(data, n)
               /\ UNCHANGED disk
               /\ IF n = Len(data)
                    THEN pc' = "done" /\ exit' = 0 /\ UNCHANGED err
                    ELSE Halt(IOErr("write"))
       \/ /\ out = "file"
          /\ \E n \in 0..Len(data) :
               /\ UNCHANGED stdout
               /\ IF n = Len(data)
                    THEN /\ disk' = [disk EXCEPT !.content = data, !.open = FALSE]
                         /\ pc' = "done" /\ exit' = 0 /\ UNCHANGED err
                    ELSE /\ disk' = [disk EXCEPT !.content = Prefix(data, n)]
                         /\ Halt(IOErr("write"))
       \/ /\ out = "file+stdout"
          /\ \/ \E n \in 0..(Len(data) - 1) :
                  /\ disk' = [disk EXCEPT !.content = Prefix(data, n)]
                  /\ UNCHANGED stdout
                  /\ Halt(IOErr("write"))
             \/ \E n \in 0..Len(data) :
                  /\ stdout' = Prefix(data, n)
                  /\ IF n = Len(data)
                       THEN /\ disk' = [disk EXCEPT !.content = data, !.open = FALSE]
                            /\ pc' = "done" /\ exit' = 0 /\ UNCHANGED err
                       ELSE /\ disk' = [disk EXCEPT !.content = data]
                            /\ Halt(IOErr("write"))
  /\ UNCHANGED <<prog, cfg, loaded, source, pkg, outputFileName, verbose, composite,
                 consumer, lookups, idx, typs, funs, file, buf, out, createLog>>

Next ==
  \/ parseStage
  \/ checkComposite
  \/ variantStep
  \/ generateAST
  \/ dumpAST
  \/ createOutput
  \/ emit

Spec == Init /\ [][Next]_vars

(* =============================== claims =============================== *)
\* the consumer's methods as loaded, and the run's progress
ConsumerMethods == source[consumer].Methods
Generated == file # <<>>
ConsumerStageError ==
  /\ pc = "done"
  /\ err.role = "consumer"
  /\ err.kind \in {"UnnamedParam", "NonExportableName", "ResultCount"}
CompositeStageError ==
  /\ pc = "done"
  /\ \/ err.role = "composite" /\ err.kind \in {"MethodCount", "Arity", "ParamType", "ResultCount"}
     \/ err = Panic /\ idx = 0
CompositeChecked == idx >= 1 \/ CompositeStageError

(* ------------------------------- C1 ----------------------------------- *)
\* C1: once the output unit is assembled there is exactly one record type
\* and one dispatch function per consumer method, and the unit lists the
\* records first, in the consumer's method order, then the functions in the
\* same order: the i-th record and the i-th function come from method i.
C1_OnePairPerMethodInOrder ==
  Generated =>
    LET n == Len(ConsumerMethods)
        decls == file[1].Decls IN
    /\ Len(typs) = n
    /\ Len(funs) = n
    /\ Len(decls) = 2 * n
    /\ \A i \in 1..n :
         /\ decls[i].k = "type"
         /\ decls[i] = typs[i]
         /\ decls[i].Name = ConsumerMethods[i].Names[1]
         /\ decls[n + i].k = "func"
         /\ decls[n + i] = funs[i]
         /\ decls[n + i].Recv.Star = ConsumerMethods[i].Names[1]
         /\ decls[n + i].Body.Call.Sel = ConsumerMethods[i].Names[1]

C1_Witness ==
  /\ Generated
  /\ Len(ConsumerMethods) >= 2
  /\ ConsumerMethods[1].Names[1] # ConsumerMethods[2].Names[1]
  /\ Len(file[1].Decls) = 2 * Len(ConsumerMethods)

(* ------------------------------- C3 ----------------------------------- *)
\* parameters of a list, one per name, an anonymous group counting one
ParamCount(list) ==
  Cardinality({i \in DOMAIN list : list[i].Names = <<>>})
  + Cardinality(UNION {{<<i, j>> : j \in DOMAIN list[i].Names} : i \in DOMAIN list})

\* the outcome of the composite's validation, read off the run
CompositeVerdict ==
  IF CompositeStageError THEN err.kind ELSE "accepted"

\* the composite's interface body is a single embedded type: no method to
\* validate, the type assertion at the head of checkDestructuringMethod fails
SoleEmbedded(decl) == Len(decl.Methods) = 1 /\ ~decl.Methods[1].Func

\* the rules as the claim states them: parameter groups counted
C3_ClaimedVerdict(decl) ==
  IF Len(decl.Methods) # 1 THEN "MethodCount"
  ELSE LET m == decl.Methods[1] IN
    IF Len(m.Params) # 1 THEN "Arity"
    ELSE IF ~(m.Params[1].Type.Ident /\ m.Params[1].Type.Name = cfg.Consumer)
      THEN "ParamType"
    ELSE IF m.Results # <<>> THEN "ResultCount"
    ELSE "accepted"

\* C3 as stated: the composite's validation reports MethodCount when the
\* composite has zero or several methods, else Arity exactly when the
\* method's number of parameter groups is not 1, else ParamType, else
\* ResultCount, and accepts exactly when no rule is violated.
C3_AsStated ==
  (CompositeChecked /\ ~SoleEmbedded(source[composite])) =>
    CompositeVerdict = C3_ClaimedVerdict(source[composite])

\* the rules as the code applies them: the interface's elements counted
\* (methods and embedded types alike), then the parameters counted
C3_CodeVerdict(decl) ==
  IF Len(decl.Methods) # 1 THEN "MethodCount"
  ELSE IF ~decl.Methods[1].Func THEN "panic"
  ELSE LET m == decl.Methods[1] IN
    IF ParamCount(m.Params) # 1 THEN "Arity"
    ELSE IF ~(m.Params[1].Type.Ident /\ m.Params[1].Type.Name = cfg.Consumer)
      THEN "ParamType"
    ELSE IF m.Results # <<>> THEN "ResultCount"
    ELSE "accepted"

\* C3 amended: MethodCount exactly when the composite's interface body does
\* not have exactly one element; else, the element being a method, Arity
\* exactly when its number of parameters (names over all groups, an unnamed
\* group counting one) is not 1; else ParamType; else ResultCount; accepted
\* exactly when none applies.  A sole embedded element is never accepted.
C3_RuleOrderByParameters ==
  CompositeChecked => CompositeVerdict = C3_CodeVerdict(source[composite])

\* one group of two names was rejected for its arity
C3_Witness ==
  /\ CompositeStageError
  /\ err.kind = "Arity"
  /\ Len(source[composite].Methods) = 1
  /\ Len(source[composite].Methods[1].Params) = 1
  /\ Len(source[composite].Methods[1].Params[1].Names) = 2

(* ------------------------------- C4 ----------------------------------- *)
C4_ClaimedVerdict(m) ==
  IF \E i \in DOMAIN m.Params : m.Params[i].Names = <<>> THEN "UnnamedParam"
  ELSE IF \E i \in DOMAIN m.Params : \E j \in DOMAIN m.Params[i].Names :
            ~IsUpper(m.Params[i].Names[j][1])
    THEN "NonExportableName"
  ELSE IF m.Results # <<>> THEN "ResultCount"
  ELSE "accepted"

\* C4: a consumer method's validation reports the first violated rule in the
\* order UnnamedParam, NonExportableName, ResultCount, and accepts the method
\* exactly when it violates none: every method the loop got past was
\* acceptable, and the method the loop stopped at carries its first rule.
C4_FirstRuleInOrder ==
  /\ idx >= 1 =>
       \A j \in 1..(idx - 1) :
         ConsumerMethods[j].Func /\ C4_ClaimedVerdict(ConsumerMethods[j]) = "accepted"
  /\ ConsumerStageError =>
       /\ ConsumerMethods[idx].Func
       /\ err.kind = C4_ClaimedVerdict(ConsumerMethods[idx])
       /\ err.name = ConsumerMethods[idx].Names[1]

\* a method with an unnamed parameter and a result was rejected
C4_Witness ==
  /\ ConsumerStageError
  /\ err.kind = "UnnamedParam"
  /\ ConsumerMethods[idx].Results # <<>>

(* ------------------------------- C2 ----------------------------------- *)
\* the names of a parameter list, flattened across its groups in order
RECURSIVE FlatNames(_)
FlatNames(list) ==
  IF list = <<>> THEN <<>> ELSE Head(list).Names \o FlatNames(Tail(list))

\* C2: the i-th record is named after the i-th consumer method M and its
\* fields are M's parameter groups as loaded, in order, grouping kept; the
\* i-th dispatch body is the one call consumer.M(r.F1, ..., r.Fn) whose
\* arguments are M's parameter names flattened in order, each selected off
\* the receiver binding; without parameters: no field and no argument.
C2_FieldsAndCallFollowMethod ==
  \A i \in DOMAIN typs :
    LET M == ConsumerMethods[i]
        names == FlatNames(M.Params)
        call == funs[i].Body.Call IN
    /\ typs[i].Name = M.Names[1]
    /\ typs[i].Fields = M.Params
    /\ call.X = idConsumer
    /\ call.Sel = M.Names[1]
    /\ Len(call.Args) = Len(names)
    /\ \A j \in DOMAIN names :
         call.Args[j] = [X |-> funs[i].Recv.Name, Sel |-> names[j]]
    /\ M.Params = <<>> => (typs[i].Fields = <<>> /\ call.Args = <<>>)

(* ------------------------------- C5 ----------------------------------- *)
\* how many type declarations of the loaded package have the name
Declared(name) == Cardinality({i \in DOMAIN source : source[i].Name = name})

LookupFailed(role, kind, name) ==
  pc = "done" /\ err.role = role /\ err.kind = kind /\ err.name = name

\* C5: a lookup fails as not found exactly when no type declaration has the
\* name, as ambiguous exactly when several have it, and otherwise yields the
\* one declaration of that name; the composite's name is looked up first and
\* at most once, the consumer's after it and at most once, and both exactly
\* once in a run that gets past the lookups.
C5_LookupByName ==
  (pc # "start" /\ loaded = "ok") =>
    /\ lookups \in {<<cfg.Composite>>, <<cfg.Composite, cfg.Consumer>>}
    /\ LookupFailed("composite", "NotFound", cfg.Composite) <=> Declared(cfg.Composite) = 0
    /\ LookupFailed("composite", "Ambiguous", cfg.Composite) <=> Declared(cfg.Composite) > 1
    /\ Len(lookups) = 2 =>
         /\ LookupFailed("consumer", "NotFound", cfg.Consumer) <=> Declared(cfg.Consumer) = 0
         /\ LookupFailed("consumer", "Ambiguous", cfg.Consumer) <=> Declared(cfg.Consumer) > 1
    /\ composite # 0 => (source[composite].Name = cfg.Composite /\ Declared(cfg.Composite) = 1)
    /\ consumer # 0 => (source[consumer].Name = cfg.Consumer /\ Declared(cfg.Consumer) = 1)
    /\ (pc # "done" \/ err.kind \notin {"NotFound", "Ambiguous"}) =>
         /\ Declared(cfg.Composite) = 1
         /\ Len(lookups) = 2 => Declared(cfg.Consumer) = 1
    /\ (pc # "done" \/ err.kind \notin {"NotFound", "Ambiguous", "Kind"}) =>
         /\ lookups = <<cfg.Composite, cfg.Consumer>>
         /\ composite # 0
         /\ consumer # 0

\* the consumer's name is declared twice and its lookup was refused
C5_Witness ==
  /\ LookupFailed("consumer", "Ambiguous", cfg.Consumer)
  /\ err.n = 2
  /\ Declared(cfg.Composite) = 1

(* ------------------------------- C6 ----------------------------------- *)
IsLowerOf(r, name) ==
  /\ Len(r) = Len(name)
  /\ \A i \in DOMAIN name : r[i] = ToLowerChar(name[i])

C7_ReceiverIsCompositeName ==
  \A i \in DOMAIN funs : funs[i].Recv.Name = cfg.Composite

(* ------------------------------- C8 ----------------------------------- *)
\* what a run that ended with exit code 0 emitted
Emitted == IF out = "stdout" THEN stdout ELSE disk.content

\* C8: a successful run's output starts with the marker line, then has the
\* package clause with the target package name, then the record types, then
\* the dispatch functions, as the output unit lists them.
C8_MarkerThenPackageThenDecls ==
  (pc = "done" /\ exit = 0) =>
    /\ Len(Emitted) = 2 + Len(file[1].Decls)
    /\ Emitted[1] = MarkerLine
    /\ Emitted[2] = PackageLine(cfg.PackageName)
    /\ SubSeq(Emitted, 3, Len(Emitted)) = typs \o funs

(* ------------------------------- C9 ----------------------------------- *)
UsesDestinationPath == outputFileName # OptStdout
\* validation, synthesis and rendering of the output unit are all over:
\* the command's Generate has returned, main.go's format.Node has returned
GenerationComplete ==
  \/ prog = "cmd" /\ buf # <<>>
  \/ prog = "main" /\ pc = "done" /\ exit = 0
Untouched ==
  /\ ~disk.open
  /\ disk.content = IF disk.exists THEN OldContent ELSE <<>>

\* C9 as stated: in a run that uses a destination path the file has been
\* created by the time generation (validation, synthesis, rendering) is over.
C9_AsStated ==
  (UsesDestinationPath /\ GenerationComplete) => createLog # <<>>

\* C9 amended: in a run that uses a destination path the file is created, and
\* truncated, only once validation and synthesis of the output unit have
\* succeeded, at most once, and before anything is written to it; main.go
\* creates it before rendering, the command only after Generate has rendered
\* the complete output into its buffer.  Until then the file is untouched.
C9_CreatedAfterSynthesis ==
  /\ Len(createLog) <= 1
  /\ \A i \in DOMAIN createLog :
       /\ UsesDestinationPath
       /\ createLog[i].validated
       /\ createLog[i].assembled
       /\ createLog[i].rendered <=> prog = "cmd"
  /\ createLog = <<>> => Untouched
  /\ (pc = "opened" /\ UsesDestinationPath) =>
       /\ Len(createLog) = 1
       /\ disk = [exists |-> TRUE, content |-> <<>>, open |-> TRUE]
       /\ stdout = <<>>
  /\ (pc = "done" /\ exit = 0 /\ UsesDestinationPath) => Len(createLog) = 1

\* the command has created and truncated an existing file, the rendered
\* output still in its buffer
C9_Witness ==
  /\ prog = "cmd"
  /\ pc = "opened"
  /\ out = "file"
  /\ Len(buf) >= 4
  /\ disk.content = <<>>
  /\ createLog = <<[validated |-> TRUE, assembled |-> TRUE, rendered |-> TRUE]>>

(* ------------------------------- C10 ---------------------------------- *)
\* C10: when a consumer method fails validation the run ends with that
\* method's error, the method being the earliest failing one in declaration
\* order and the loop not going past it; no record type and no dispatch
\* function is returned, no output unit is assembled, nothing is emitted and
\* the destination is not created; the error is that one method's alone.
C10_AbortAtFirstFailingMethod ==
  ConsumerStageError =>
    /\ idx \in DOMAIN ConsumerMethods
    /\ \A j \in 1..(idx - 1) :
         ConsumerMethods[j].Func /\ C4_ClaimedVerdict(ConsumerMethods[j]) = "accepted"
    /\ ConsumerMethods[idx].Func
    /\ C4_ClaimedVerdict(ConsumerMethods[idx]) # "accepted"
    /\ err = Err(C4_ClaimedVerdict(ConsumerMethods[idx]), "consumer",
                 ConsumerMethods[idx].Names[1],
                 IF err.kind = "ResultCount"
                   THEN ParamCount(ConsumerMethods[idx].Results) ELSE 0)
    /\ typs = <<>>
    /\ funs = <<>>
    /\ file = <<>>
    /\ buf = <<>>
    /\ stdout = <<>>
    /\ out = "none"
    /\ createLog = <<>>
    /\ Untouched
    /\ exit = 1

\* the second method failed after the first had its record and function built
C10_Witness ==
  /\ ConsumerStageError
  /\ idx = 2
  /\ typs = <<>>
  /\ C4_ClaimedVerdict(ConsumerMethods[1]) = "accepted"

(* ------------------------------- C11 ---------------------------------- *)
\* C11: the loaded declarations are only read: at every point of a run,
\* ended or not, the composite's destructuring method (its parameter's name
\* included) and the consumer's methods are as they were loaded.
C11_DeclarationsAsLoaded ==
  /\ composite # 0 => pkg[composite].Methods = source[composite].Methods
  /\ consumer # 0 => pkg[consumer].Methods = source[consumer].Methods

(* ------------------------------- C12 ---------------------------------- *)
\* the process has ended after it had created the destination file
EndedAfterCreate == pc = "done" /\ createLog # <<>>

\* C12: in a run that acquires the destination file, the file is acquired at
\* most once, a successful run leaves in it the complete output, written
\* once, and whenever the process has ended after the acquisition, a failed
\* write included, the file has been closed.
C12_AcquiredOnceClosedOnEveryExit ==
  /\ Len(createLog) <= 1
  /\ (EndedAfterCreate /\ exit = 0) => disk.content = emitData(prog, file, buf)
  /\ EndedAfterCreate => ~disk.open

====
